---- MODULE Spec2Model ----
(***************************************************************************)
(* Verification model of the business-intelligence orchestrator.           *)
(*                                                                         *)
(* The components are modelled each with its own specification:            *)
(*   SpecOrch  - LangGraphOrchestrator.orchestrate and the graph nodes     *)
(*               (router, research, parallel dispatcher, synthesis);       *)
(*   SpecLLM   - UnifiedLLM.generate (provider selection and fallback);    *)
(*   SpecCache - QueryCache over its Redis / file backends;                *)
(*   SpecMem   - ConversationMemory.                                       *)
(* The variables of the components that a specification does not drive     *)
(* stay at their initial values.                                           *)
(***************************************************************************)
EXTENDS Integers, Sequences, FiniteSets, TLC

VARIABLES
    \* ---- LangGraphOrchestrator instance (src/src/langgraph_orchestrator.py)
    enable_rag,        \* self.enable_rag
    use_ml_routing,    \* self.use_ml_routing
    ml_router,         \* TRUE iff self.ml_router is a loaded classifier
    agents_awaitable,  \* FALSE: the agents of src/src/agents (plain def, return str)
                       \* TRUE : agent doubles whose methods return awaitables
                       \*        (tests/test_orchestrator.py:74-75)
    memory,            \* self.memory.messages, oldest first
    \* ---- one orchestrate call
    pc,                \* position of the control thread
    state,             \* the AgentState threaded through the graph
    tasks,             \* dispatcher: result field -> "none" | "pending" | "ok" | "exc"
    dispatch_output,   \* the map _execute_agents_parallel returned, or NoOutput
    synthesis_prompt,  \* set of <<field, text>> labelled outputs put in the prompt
    prompt_context,    \* TRUE iff the conversation history was rendered in the prompt
    synth_api,         \* outcome of the synthesis provider API call: none | ok | fail
    raised_in,         \* stage whose exception left orchestrate, or "none"
    result,            \* the dict orchestrate returned, or NoResult
    ncalls,            \* number of orchestrate calls started
    stages,            \* graph nodes entered by the current call, in order
    route_case,        \* what the router met in the current call (RouteCase)
    ml_failed,         \* TRUE iff the classifier has raised in a routing call
    ml_after_fail,     \* TRUE iff the classifier was invoked after it had raised
    \* ---- UnifiedLLM instance and one generate call (src/src/unified_llm.py)
    llm_strategy,      \* self.strategy
    llm_agent_type,    \* self.agent_type
    llm_calls,         \* provider calls made by the last generate, in order
    llm_request,       \* arguments of the last generate call
    llm_outcome,       \* none | returned | raised
    llm_result,        \* text returned by the last generate call
    \* ---- QueryCache instances over one shared backend (src/src/cache.py)
    cache_backend,     \* "none" (disabled) | "redis" | "file"
    clients,           \* client ids of the QueryCache instances sharing the backend
    store,             \* backend contents: key -> entry or Absent
    stats,             \* client -> [hits, misses, saves]
    now,               \* wall clock, in days
    last_get,          \* the get that was the latest cache operation, or NoGet
    written,           \* per key, the latest backend write not yet cleared
    cache_ops,         \* number of cache operations performed
    since_clear,       \* client -> get and set calls made since its last clear()
    \* ---- the Redis server the cache was built against
    redis_up,          \* TRUE iff the server answers
    cache_raised,      \* the latest QueryCache call an exception left: none | get | set
                       \* (the constructor is never one: lines 90-98 catch it)
    \* ---- a ConversationMemory instance of its own (src/src/memory.py)
    mem_capacity,      \* self.max_messages
    mem_messages,      \* self.messages, oldest first
    mem_history,       \* every turn added since the last clear, oldest first
    mem_got,           \* what the latest get_messages returned, or NoMessages
    mem_ops,           \* number of memory operations performed
    \* ---- the worker tasks of the dispatcher, run one dispatch after another
    \*      beside an enabled cache (src/src/agents/*.py)
    wk_calls,          \* <<worker, query, has-research flag>> -> provider calls made
    wk_output,         \* what the latest worker task returned, or NoWorkerOutput
    wk_ops,            \* number of worker tasks run
    \* ---- keyword routing of PrimaryOrchestrator (src/src/orchestrator.py)
    kw_query,          \* the query, a sequence of characters
    kw_result,         \* what determine_agents_needed returned, or NoDecision
    \* ---- a UnifiedLLM instance and the temperature of one generate call
    tp_strategy,       \* self.strategy
    tp_agent_type,     \* self.agent_type
    tp_arg,            \* the temperature argument of the call: <<t>>, or <<>> for None
    tp_temperature,     \* <<the temperature the call goes on with>>, <<>> before a call
    \* ---- one run of _execute_agents_parallel with awaitable worker tasks
    ga_agents,         \* state["agents_to_call"]
    ga_outcome,        \* result field -> how the task of that field ends: ok | exc
    ga_pending,        \* the fields whose task has not finished yet
    ga_order,          \* the fields in the order their tasks finished
    ga_output,         \* the map the dispatcher returned, or NoOutput
    ga_stored,          \* result field -> what _agents_parallel_node stored in the state
    \* ---- the task-building part of _execute_agents_parallel, lines 274-297
    wb_agents,         \* state["agents_to_call"]
    wb_web,            \* state.get("web_research"): EmptyWeb or WebResults
    wb_pc,             \* blocks | gather | raised
    wb_block,          \* the `if` block to run next, 1..4
    wb_lookups,        \* calls of web_research.execute made
    wb_events,         \* lookups and task launches in the order they happened
    wb_args            \* worker id -> the web results its task was given

orchVars  == <<enable_rag, use_ml_routing, ml_router, agents_awaitable, memory, pc,
               state, tasks, dispatch_output, synthesis_prompt, prompt_context, synth_api, raised_in,
               result, ncalls, stages, route_case, ml_failed,
               ml_after_fail>>
llmVars   == <<llm_strategy, llm_agent_type, llm_calls, llm_request, llm_outcome,
               llm_result>>
cacheVars == <<cache_backend, clients, store, stats, now, last_get, written, cache_ops,
               since_clear>>
tempVars  == <<tp_strategy, tp_agent_type, tp_arg, tp_temperature>>
gaVars    == <<ga_agents, ga_outcome, ga_pending, ga_order, ga_output, ga_stored>>
webVars   == <<wb_agents, wb_web, wb_pc, wb_block, wb_lookups, wb_events, wb_args>>
netVars   == <<redis_up, cache_raised>>
memVars   == <<mem_capacity, mem_messages, mem_history, mem_got, mem_ops>>
workerVars == <<wk_calls, wk_output, wk_ops>>
kwVars    == <<kw_query, kw_result>>
vars      == <<orchVars, llmVars, cacheVars, memVars, workerVars, kwVars, netVars, tempVars, gaVars, webVars>>

\* what the actions of one component leave alone
nonTempVars   == <<orchVars, llmVars, cacheVars, memVars, workerVars, kwVars, netVars, gaVars, webVars>>
nonGaVars     == <<orchVars, llmVars, cacheVars, memVars, workerVars, kwVars, netVars, tempVars, webVars>>
nonWebVars    == <<orchVars, llmVars, cacheVars, memVars, workerVars, kwVars, netVars, tempVars, gaVars>>
nonOrchVars   == <<llmVars, cacheVars, memVars, workerVars, kwVars, netVars, tempVars, gaVars, webVars>>
nonLLMVars    == <<orchVars, cacheVars, memVars, workerVars, kwVars, netVars, tempVars, gaVars, webVars>>
nonCacheNetVars == <<orchVars, llmVars, memVars, workerVars, kwVars, tempVars, gaVars, webVars>>
nonCacheVars  == <<nonCacheNetVars, netVars>>
nonMemVars    == <<orchVars, llmVars, cacheVars, workerVars, kwVars, netVars, tempVars, gaVars, webVars>>
nonKwVars     == <<orchVars, llmVars, cacheVars, memVars, workerVars, netVars, tempVars, gaVars, webVars>>
nonWorkerVars == <<orchVars, llmVars, cacheVars, memVars, kwVars, netVars, tempVars, gaVars, webVars>>

(***************************************************************************)
(* Bounds of the model.                                                    *)
(***************************************************************************)
MaxCalls    == 2   \* orchestrate calls per orchestrator instance
MaxRouteLen == 2   \* length of a worker list returned by a router strategy
MaxTime     == 7   \* last day of the wall clock
MaxCacheOps == 3   \* cache operations and clock steps per run
MaxCapacity == 2   \* largest capacity of the ConversationMemory of SpecMem
MaxMemOps   == 5   \* operations on the ConversationMemory of SpecMem
MaxWorkerRuns == 3 \* worker tasks run in SpecWorker
MaxWords    == 2   \* words in a query of SpecKw

(***************************************************************************)
(* Texts.  A text is a string; "" is the empty (falsy) text.               *)
(***************************************************************************)
Queries        == {"q1"}
WorkerOutput   == "worker output"
SynthesisText  == "synthesis text"
GPT5ErrorText  == "Error generating response: api failure"   \* gpt5_wrapper.py:20
DispatchError  == "Error: timeout"                           \* langgraph_orchestrator.py:304

(***************************************************************************)
(* Workers.                                                                *)
(***************************************************************************)
ALL_AGENTS == <<"market", "operations", "financial", "leadgen">>
Workers    == {"market", "operations", "financial", "leadgen"}
\* identifiers the provider may name in its routing answer: two of the
\* workers and one id the dispatcher does not know
RouterNames == {"market", "financial", "research"}
\* worker ids the classifier may predict
MLNames     == {"market", "financial"}
Fields     == {"market_analysis", "operations_audit", "financial_modeling",
               "lead_generation"}

\* the result field the dispatcher fills for a worker id
FieldOf(w) ==
    CASE w = "market"     -> "market_analysis"
      [] w = "operations" -> "operations_audit"
      [] w = "financial"  -> "financial_modeling"
      [] w = "leadgen"    -> "lead_generation"
      [] OTHER            -> "no field"

Range(s) == {s[i] : i \in DOMAIN s}

SeqsUpTo(S, n) == UNION {[1..k -> S] : k \in 0..n}

NoResult == [returned |-> FALSE]

(***************************************************************************)
(* ConversationMemory (src/src/memory.py)                                  *)
(***************************************************************************)
MAX_MEMORY_MESSAGES == 10

\* mutant: a full deque refuses the new item instead of evicting the oldest
deque_append_KeepsOldest(d, maxlen, x) ==
    IF Len(d) >= maxlen THEN d ELSE Append(d, x)

\* deque(maxlen=maxlen).append(x): a full deque drops its oldest item, and a
\* deque of maxlen 0 stays empty
deque_append(d, maxlen, x) ==
    IF maxlen = 0 THEN d
    ELSE IF Len(d) >= maxlen THEN Tail(d) \o <<x>>
    ELSE Append(d, x)

\* add_message on the orchestrator's memory (capacity Config.MAX_MEMORY_MESSAGES)
add_message(mem, role, content) ==
    deque_append(mem, MAX_MEMORY_MESSAGES, <<role, content>>)

\* the turns the memory of SpecMem is given
MemTurns == {<<"user", "q1">>, <<"assistant", SynthesisText>>, <<"user", "q2">>}

NoMessages == [done |-> FALSE, messages |-> <<>>]

\* ConversationMemory.add_message, lines 11-15
MemAdd(role, content) ==
    /\ mem_ops < MaxMemOps
    /\ mem_ops' = mem_ops + 1
    /\ mem_messages' = deque_append(mem_messages, mem_capacity, <<role, content>>)
    /\ mem_history' = Append(mem_history, <<role, content>>)
    /\ mem_got' = NoMessages
    /\ UNCHANGED mem_capacity
    /\ UNCHANGED nonMemVars

\* ConversationMemory.get_messages, lines 17-18
MemGetMessages ==
    /\ mem_ops < MaxMemOps
    /\ mem_ops' = mem_ops + 1
    /\ mem_got' = [done |-> TRUE, messages |-> mem_messages]
    /\ UNCHANGED <<mem_capacity, mem_messages, mem_history>>
    /\ UNCHANGED nonMemVars

\* ConversationMemory.clear, lines 20-21
MemClear ==
    /\ mem_ops < MaxMemOps
    /\ mem_ops' = mem_ops + 1
    /\ mem_messages' = <<>>
    /\ mem_history' = <<>>
    /\ mem_got' = NoMessages
    /\ UNCHANGED mem_capacity
    /\ UNCHANGED nonMemVars

(***************************************************************************)
(* GPT5Wrapper.generate: every exception of the API call is caught and     *)
(* returned as an error text.                                              *)
(***************************************************************************)
\* outcome of the API call made inside GPT5Wrapper.generate
ApiOutcomes == {"ok", "fail"}

GPT5Generate(api, text) == IF api = "ok" THEN text ELSE GPT5ErrorText

\* what self.gpt5.generate does for the router: as above, or it raises (the
\* case the router's except clause and tests/test_orchestrator.py:35-40 cover)
RouterApiOutcomes == ApiOutcomes \cup {"raise"}

(***************************************************************************)
(* Router                                                                  *)
(***************************************************************************)
\* a provider response to the routing prompt: either the text of a JSON
\* array of names (possibly wrapped in markdown code fences), or text that
\* is no JSON
RouterTexts ==
    [json : {TRUE}, fenced : BOOLEAN, value : SeqsUpTo(RouterNames, MaxRouteLen)]
        \cup {[json |-> FALSE, fenced |-> FALSE, value |-> <<>>]}

NotJson == [json |-> FALSE, fenced |-> FALSE, value |-> <<>>]

\* response.strip().replace("```json", "").replace("```", "").strip()
StripFences(t) == [t EXCEPT !.fenced = FALSE]

\* json.loads: the parsed value, or a JSONDecodeError
JsonLoads(t) ==
    IF t.json /\ ~t.fenced THEN [ok |-> TRUE, value |-> t.value]
    ELSE [ok |-> FALSE, value |-> <<>>]

\* mutant: an empty parsed array is stored as the decision
SemanticRoute_KeepsEmpty(api, text) ==
    LET response == IF api = "ok" THEN text ELSE NotJson
        parsed   == JsonLoads(StripFences(response))
    IN  IF api = "raise" THEN ALL_AGENTS
        ELSE IF ~parsed.ok THEN ALL_AGENTS
        ELSE parsed.value

\* the try block of the GPT-5 routing path, lines 143-165
SemanticRoute(api, text) ==
    LET response == IF api = "ok" THEN text ELSE NotJson  \* the error text is no JSON
        parsed   == JsonLoads(StripFences(response))
    IN  IF api = "raise" THEN ALL_AGENTS      \* except clause, lines 162-165
        ELSE IF ~parsed.ok THEN ALL_AGENTS
        ELSE IF parsed.value = <<>> THEN ALL_AGENTS
        ELSE parsed.value

\* the classifier's answer: a list of worker ids, or an exception
MLResponses ==
    [raises : {FALSE}, agents : SeqsUpTo(MLNames, MaxRouteLen)]
        \cup {[raises |-> TRUE, agents |-> <<>>]}

\* line 112: the classifier is asked
ClassifierInvoked == use_ml_routing /\ ml_router

\* what the router met: the classifier answered ("classifier"); or, on the
\* GPT-5 path, generate raised ("raised"), it returned the wrapper's error
\* text ("error_text"), its response is no JSON after the fences are stripped
\* ("unparsable"), it is the empty array ("empty") or a non-empty array ("list")
RouteCase(ml, api, text) ==
    IF ClassifierInvoked /\ ~ml.raises THEN "classifier"
    ELSE IF api = "raise" THEN "raised"
    ELSE IF api = "fail" THEN "error_text"
    ELSE IF ~text.json THEN "unparsable"
    ELSE IF text.value = <<>> THEN "empty"
    ELSE "list"

\* the answers the router reads: the classifier's only when it is asked, the
\* provider's only when the classifier is not asked or raised, and a response
\* text only when generate returned one (the answers it does not read are
\* held at one value)
RouterInputs(ml, api, text) ==
    /\ ~ClassifierInvoked => ml.raises
    /\ (ClassifierInvoked /\ ~ml.raises) => (api = "ok" /\ text = NotJson)
    /\ api # "ok" => text = NotJson

\* _router_node: the list it stores in state["agents_to_call"]
RouteDecision(ml, api, text) ==
    IF use_ml_routing /\ ml_router /\ ~ml.raises
    THEN ml.agents
    ELSE SemanticRoute(api, text)

\* orchestrate, lines 317-331: the state dict built for this call
InitialState(q, um) ==
    [query |-> q, agents_to_call |-> <<>>, research_enabled |-> enable_rag,
     research_findings |-> "{}", research_context |-> "", market_analysis |-> "", operations_audit |-> "",
     financial_modeling |-> "", lead_generation |-> "", synthesis |-> "",
     use_memory |-> um]

\* the has-research-context flag of a dispatch (`if research_context:`)
HasResearch(st) == st.research_context # ""

NoTasks == [f \in Fields |-> "none"]

NoOutput == [returned |-> FALSE]

\* mutant: the state of the previous call is taken over, with the new query
OrchestrateStart_KeepsState(q, um) ==
    /\ pc \in {"idle", "returned", "raised"}
    /\ ncalls < MaxCalls
    /\ ncalls' = ncalls + 1
    /\ memory' = IF um THEN add_message(memory, "user", q) ELSE memory
    /\ state' = [state EXCEPT !.query = q, !.use_memory = um]
    /\ tasks' = NoTasks
    /\ dispatch_output' = NoOutput
    /\ synthesis_prompt' = {}
    /\ prompt_context' = FALSE
    /\ synth_api' = "none"
    /\ raised_in' = "none"
    /\ result' = NoResult
    /\ pc' = "router"
    /\ UNCHANGED <<enable_rag, use_ml_routing, ml_router, agents_awaitable>>
    /\ stages' = <<>>
    /\ route_case' = "none"
    /\ UNCHANGED <<ml_failed, ml_after_fail>>
    /\ UNCHANGED nonOrchVars

(***************************************************************************)
(* orchestrate, lines 311-334: the user turn, the fresh state, graph entry *)
(***************************************************************************)
OrchestrateStart(q, um) ==
    /\ pc \in {"idle", "returned", "raised"}
    /\ ncalls < MaxCalls
    /\ ncalls' = ncalls + 1
    /\ memory' = IF um THEN add_message(memory, "user", q) ELSE memory
    /\ state' = InitialState(q, um)
    /\ tasks' = NoTasks
    /\ dispatch_output' = NoOutput
    /\ synthesis_prompt' = {}
    /\ prompt_context' = FALSE
    /\ synth_api' = "none"
    /\ raised_in' = "none"
    /\ result' = NoResult
    /\ pc' = "router"
    /\ UNCHANGED <<enable_rag, use_ml_routing, ml_router, agents_awaitable>>
    /\ stages' = <<>>
    /\ route_case' = "none"
    /\ UNCHANGED <<ml_failed, ml_after_fail>>
    /\ UNCHANGED nonOrchVars

\* mutant: the router is always wired to the dispatcher
AfterRouter_SkipsResearch == "agents_parallel"

\* the edge leaving the router, _build_graph lines 96-100
AfterRouter == IF enable_rag THEN "research_synthesis" ELSE "agents_parallel"

\* _router_node, lines 108-168
RouterNode(ml, api, text) ==
    /\ pc = "router"
    /\ state' = [state EXCEPT !.agents_to_call = RouteDecision(ml, api, text)]
    /\ pc' = AfterRouter
    /\ UNCHANGED <<enable_rag, use_ml_routing, ml_router, agents_awaitable, memory,
                   tasks, dispatch_output, synthesis_prompt, prompt_context,
                   synth_api, raised_in, result, ncalls>>
    /\ stages' = Append(stages, "router")
    /\ route_case' = RouteCase(ml, api, text)
    /\ ml_failed' = (ml_failed \/ (ClassifierInvoked /\ ml.raises))
    /\ ml_after_fail' = (ml_after_fail \/ (ClassifierInvoked /\ ml_failed))
    /\ UNCHANGED nonOrchVars

\* what research_agent.synthesize did: raised, or returned a synthesis with
\* a research context
ResearchOutcomes == {"raise", "context"}

ResearchContext == "research context"

\* mutant: the exception of the research agent leaves the node
ResearchNode_Aborts(o) ==
    /\ pc = "research_synthesis"
    /\ state' = IF o = "raise"
                THEN [state EXCEPT !.research_findings = "{}", !.research_context = ""]
                ELSE [state EXCEPT !.research_findings = "result",
                                   !.research_context =
                                       IF o = "context" THEN ResearchContext ELSE ""]
    /\ pc' = IF o = "raise" THEN "raised" ELSE "agents_parallel"
    /\ raised_in' = IF o = "raise" THEN "research_synthesis" ELSE raised_in
    /\ UNCHANGED <<enable_rag, use_ml_routing, ml_router, agents_awaitable, memory,
                   tasks, dispatch_output, synthesis_prompt, prompt_context,
                   synth_api, result, ncalls>>
    /\ stages' = Append(stages, "research_synthesis")
    /\ UNCHANGED <<route_case, ml_failed, ml_after_fail>>
    /\ UNCHANGED nonOrchVars

\* _research_synthesis_node, lines 171-205
ResearchNode(o) ==
    /\ pc = "research_synthesis"
    /\ state' = IF o = "raise"
                THEN [state EXCEPT !.research_findings = "{}", !.research_context = ""]
                ELSE [state EXCEPT !.research_findings = "result",
                                   !.research_context =
                                       IF o = "context" THEN ResearchContext ELSE ""]
    /\ pc' = "agents_parallel"
    /\ UNCHANGED <<enable_rag, use_ml_routing, ml_router, agents_awaitable, memory,
                   tasks, dispatch_output, synthesis_prompt, prompt_context,
                   synth_api, raised_in, result, ncalls>>
    /\ stages' = Append(stages, "research_synthesis")
    /\ UNCHANGED <<route_case, ml_failed, ml_after_fail>>
    /\ UNCHANGED nonOrchVars

(***************************************************************************)
(* Parallel dispatcher                                                     *)
(***************************************************************************)
\* the keys of `tasks` built by _execute_agents_parallel, lines 274-297
TaskFields(agents) == {FieldOf(w) : w \in Range(agents) \cap Workers}

\* asyncio.gather(*tasks.values(), return_exceptions=True), line 299: gather
\* accepts only awaitables and raises TypeError, out of the dispatcher, when
\* handed the str a plain `def` agent method has already returned
GatherRaises(agents) == ~agents_awaitable /\ TaskFields(agents) # {}

\* lines 301-308: the map built from the gathered results
OutputMap(t) ==
    [f \in {g \in Fields : t[g] # "none"} |->
        IF t[f] = "exc" THEN DispatchError ELSE WorkerOutput]

\* results.get(key, ""), lines 217-220
ResultsGet(out, f) == IF f \in DOMAIN out THEN out[f] ELSE ""

\* _agents_parallel_node, lines 209-211: nothing routed, the state passes through
DispatchSkip ==
    /\ pc = "agents_parallel"
    /\ state.agents_to_call = <<>>
    /\ pc' = "synthesis"
    /\ UNCHANGED <<enable_rag, use_ml_routing, ml_router, agents_awaitable, memory,
                   state, tasks, dispatch_output, synthesis_prompt, prompt_context,
                   synth_api, raised_in, result, ncalls>>
    /\ stages' = Append(stages, "agents_parallel")
    /\ UNCHANGED <<route_case, ml_failed, ml_after_fail>>
    /\ UNCHANGED nonOrchVars

\* _agents_parallel_node line 215 and _execute_agents_parallel up to the
\* gather call, line 299
DispatchLaunch ==
    /\ pc = "agents_parallel"
    /\ state.agents_to_call # <<>>
    /\ IF GatherRaises(state.agents_to_call)
       THEN /\ pc' = "raised"
            /\ raised_in' = "agents_parallel"
            /\ tasks' = [f \in Fields |->
                            IF f \in TaskFields(state.agents_to_call)
                            THEN "ok" ELSE "none"]
       ELSE /\ pc' = "gather"
            /\ raised_in' = raised_in
            /\ tasks' = [f \in Fields |->
                            IF f \in TaskFields(state.agents_to_call)
                            THEN "pending" ELSE "none"]
    /\ UNCHANGED <<enable_rag, use_ml_routing, ml_router, agents_awaitable, memory,
                   state, dispatch_output, synthesis_prompt, prompt_context,
                   synth_api, result, ncalls>>
    /\ stages' = Append(stages, "agents_parallel")
    /\ UNCHANGED <<route_case, ml_failed, ml_after_fail>>
    /\ UNCHANGED nonOrchVars

TaskOutcomes == {"ok", "exc"}

\* one awaited worker task runs to completion or to its exception
TaskFinish(f, o) ==
    /\ pc = "gather"
    /\ tasks[f] = "pending"
    /\ tasks' = [tasks EXCEPT ![f] = o]
    /\ UNCHANGED <<enable_rag, use_ml_routing, ml_router, agents_awaitable, memory,
                   pc, state, dispatch_output, synthesis_prompt, prompt_context,
                   synth_api, raised_in, result, ncalls>>
    /\ UNCHANGED <<stages, route_case, ml_failed, ml_after_fail>>
    /\ UNCHANGED nonOrchVars

\* mutant: the join returns as soon as one task has failed, and the tasks
\* still pending are cancelled
DispatchJoin_FailFast ==
    /\ pc = "gather"
    /\ \/ \A f \in Fields : tasks[f] # "pending"
       \/ \E f \in Fields : tasks[f] = "exc"
    /\ LET done == [f \in Fields |-> IF tasks[f] = "pending" THEN "none" ELSE tasks[f]]
       IN  /\ dispatch_output' = [returned |-> TRUE, map |-> OutputMap(done)]
           /\ state' = [state EXCEPT
                    !.market_analysis    = ResultsGet(OutputMap(done), "market_analysis"),
                    !.operations_audit   = ResultsGet(OutputMap(done), "operations_audit"),
                    !.financial_modeling = ResultsGet(OutputMap(done), "financial_modeling"),
                    !.lead_generation    = ResultsGet(OutputMap(done), "lead_generation")]
    /\ pc' = "synthesis"
    /\ UNCHANGED <<enable_rag, use_ml_routing, ml_router, agents_awaitable, memory,
                   tasks, synthesis_prompt, prompt_context, synth_api, raised_in,
                   result, ncalls>>
    /\ UNCHANGED <<stages, route_case, ml_failed, ml_after_fail>>
    /\ UNCHANGED nonOrchVars

\* the join of gather, lines 299-308, and the stores of lines 217-220
DispatchJoin ==
    /\ pc = "gather"
    /\ \A f \in Fields : tasks[f] # "pending"
    /\ dispatch_output' = [returned |-> TRUE, map |-> OutputMap(tasks)]
    /\ state' = [state EXCEPT
                    !.market_analysis    = ResultsGet(OutputMap(tasks), "market_analysis"),
                    !.operations_audit   = ResultsGet(OutputMap(tasks), "operations_audit"),
                    !.financial_modeling = ResultsGet(OutputMap(tasks), "financial_modeling"),
                    !.lead_generation    = ResultsGet(OutputMap(tasks), "lead_generation")]
    /\ pc' = "synthesis"
    /\ UNCHANGED <<enable_rag, use_ml_routing, ml_router, agents_awaitable, memory,
                   tasks, synthesis_prompt, prompt_context, synth_api, raised_in,
                   result, ncalls>>
    /\ UNCHANGED <<stages, route_case, ml_failed, ml_after_fail>>
    /\ UNCHANGED nonOrchVars

\* the keys of the dict `tasks` in insertion order: the four `if` blocks of
\* lines 276-297 come in this order whatever the order of agents_to_call
TaskKeys(agents) ==
    LET Routed(w) == w \in Range(agents)
        ids == SelectSeq(<<"market", "operations", "financial", "leadgen">>, Routed)
    IN  [i \in 1..Len(ids) |-> FieldOf(ids[i])]

\* what the task of a field yields: the worker's own text, or its exception
TaskResult(f, o) ==
    IF o = "exc" THEN [exception |-> TRUE, of |-> f]
    ELSE [exception |-> FALSE, of |-> f]

\* mutant: the results come in the order the tasks finished
GatherResults_CompletionOrder(keys, outcome, order) ==
    [i \in 1..Len(keys) |-> TaskResult(order[i], outcome[order[i]])]

\* asyncio.gather(*tasks.values(), return_exceptions=True), line 299: the
\* results come in the order of the awaitables passed
GatherResults(keys, outcome, order) ==
    [i \in 1..Len(keys) |-> TaskResult(keys[i], outcome[keys[i]])]

\* what lines 303-306 store for one gathered result
OutputText(r) ==
    IF r.exception THEN <<"Error: ", r.of>> ELSE <<"output of", r.of>>

\* lines 301-308: zip(tasks.keys(), results) into the output dict
ZipOutput(keys, results) ==
    [f \in Range(keys) |->
        OutputText(results[CHOOSE i \in 1..Len(keys) : keys[i] = f])]

\* one awaited task finishes
GaFinish(f) ==
    /\ f \in ga_pending
    /\ ga_pending' = ga_pending \ {f}
    /\ ga_order' = Append(ga_order, f)
    /\ UNCHANGED <<ga_agents, ga_outcome, ga_output, ga_stored>>
    /\ UNCHANGED nonGaVars

\* gather completes, lines 299-308, and lines 217-220 store the results
GaJoin ==
    /\ ga_pending = {}
    /\ ~ga_output.returned
    /\ LET keys   == TaskKeys(ga_agents)
           output == ZipOutput(keys, GatherResults(keys, ga_outcome, ga_order))
       IN  /\ ga_output' = [returned |-> TRUE, map |-> output]
           /\ ga_stored' = [f \in Fields |-> ResultsGet(output, f)]
    /\ UNCHANGED <<ga_agents, ga_outcome, ga_pending, ga_order>>
    /\ UNCHANGED nonGaVars

\* web research results: the empty dict of the initial state, a filled dict,
\* and the argument of a task that is given none
EmptyWeb   == "{}"
WebResults == "web results"
NoWeb      == "no web results"
NotLaunched == "not launched"

\* what web_research.execute does: returns results, or raises
LookupOutcomes == {"results", "raise"}

\* mutant: every worker's block looks the web results up
NeedsLookup_EveryWorker(w, web_results) == web_results = EmptyWeb

\* lines 276-278: the market block runs the lookup when the state holds no
\* web results
NeedsLookup(w, web_results) == w = "market" /\ web_results = EmptyWeb

\* the web results a worker's task is called with, lines 280-297
WebArg(w, web_results) == IF w = "market" THEN web_results ELSE NoWeb

\* one `if` block of lines 276-297; o is the outcome of the lookup if the
\* block runs one
WbBlock(o) ==
    /\ wb_pc = "blocks"
    /\ LET w      == ALL_AGENTS[wb_block]
           lookup == w \in Range(wb_agents) /\ NeedsLookup(w, wb_web)
           got    == IF lookup THEN WebResults ELSE wb_web
       IN  /\ ~lookup => o = "results"
           /\ wb_lookups' = IF lookup THEN wb_lookups + 1 ELSE wb_lookups
           /\ IF w \notin Range(wb_agents)
              THEN /\ wb_pc' = IF wb_block = 4 THEN "gather" ELSE "blocks"
                   /\ UNCHANGED <<wb_events, wb_args>>
              ELSE IF lookup /\ o = "raise"
              THEN /\ wb_pc' = "raised"
                   /\ wb_events' = Append(wb_events, <<"lookup">>)
                   /\ UNCHANGED wb_args
              ELSE /\ wb_pc' = IF wb_block = 4 THEN "gather" ELSE "blocks"
                   /\ wb_events' = wb_events
                                     \o (IF lookup THEN <<(<<"lookup">>)>> ELSE <<>>)
                                     \o <<(<<"launch", w>>)>>
                   /\ wb_args' = [wb_args EXCEPT ![w] = WebArg(w, got)]
    /\ wb_block' = IF wb_block = 4 THEN 4 ELSE wb_block + 1
    /\ UNCHANGED <<wb_agents, wb_web>>
    /\ UNCHANGED nonWebVars

(***************************************************************************)
(* Synthesis                                                               *)
(***************************************************************************)
\* mutant: the prompt leaves out the entries that carry a dispatcher error
AgentOutputs_SkipErrors(st) ==
    {<<f, st[f]>> : f \in {g \in Fields : st[g] \notin {"", DispatchError}}}

\* lines 229-237: the labelled outputs collected for the prompt
AgentOutputs(st) == {<<f, st[f]>> : f \in {g \in Fields : st[g] # ""}}

\* mutant: a failed provider call leaves the synthesis node as an exception
SynthesisNode_Propagates(api) ==
    /\ pc = "synthesis"
    /\ synthesis_prompt' = {<<f, state[f]>> : f \in {g \in Fields : state[g] # ""}}
    /\ prompt_context' = state.use_memory
    /\ synth_api' = api
    /\ IF api = "ok"
       THEN /\ state' = [state EXCEPT !.synthesis = SynthesisText]
            /\ pc' = "end"
            /\ raised_in' = raised_in
       ELSE /\ state' = state
            /\ pc' = "raised"
            /\ raised_in' = "synthesis"
    /\ UNCHANGED <<enable_rag, use_ml_routing, ml_router, agents_awaitable, memory,
                   tasks, dispatch_output, result, ncalls>>
    /\ stages' = Append(stages, "synthesis")
    /\ UNCHANGED <<route_case, ml_failed, ml_after_fail>>
    /\ UNCHANGED nonOrchVars

\* _synthesis_node, lines 225-267
SynthesisNode(api) ==
    /\ pc = "synthesis"
    /\ synthesis_prompt' = AgentOutputs(state)
    /\ prompt_context' = state.use_memory
    /\ synth_api' = api
    /\ state' = [state EXCEPT !.synthesis = GPT5Generate(api, SynthesisText)]
    /\ pc' = "end"
    /\ UNCHANGED <<enable_rag, use_ml_routing, ml_router, agents_awaitable, memory,
                   tasks, dispatch_output, raised_in, result, ncalls>>
    /\ stages' = Append(stages, "synthesis")
    /\ UNCHANGED <<route_case, ml_failed, ml_after_fail>>
    /\ UNCHANGED nonOrchVars

\* lines 341-351: the dict orchestrate returns
FormatResult(st) ==
    [returned |-> TRUE,
     query |-> st.query,
     agents_consulted |-> st.agents_to_call,
     detailed_findings |-> [f \in Fields |-> st[f]],
     recommendation |-> st.synthesis]

\* mutant: the assistant turn is stored whatever use_memory is
OrchestrateReturn_AlwaysWrites ==
    /\ pc = "end"
    /\ memory' = add_message(memory, "assistant", state.synthesis)
    /\ result' = FormatResult(state)
    /\ pc' = "returned"
    /\ UNCHANGED <<enable_rag, use_ml_routing, ml_router, agents_awaitable, state,
                   tasks, dispatch_output, synthesis_prompt, prompt_context,
                   synth_api, raised_in, ncalls>>
    /\ UNCHANGED <<stages, route_case, ml_failed, ml_after_fail>>
    /\ UNCHANGED nonOrchVars

\* orchestrate, lines 336-351: the assistant turn and the returned dict
OrchestrateReturn ==
    /\ pc = "end"
    /\ memory' = IF state.use_memory
                 THEN add_message(memory, "assistant", state.synthesis)
                 ELSE memory
    /\ result' = FormatResult(state)
    /\ pc' = "returned"
    /\ UNCHANGED <<enable_rag, use_ml_routing, ml_router, agents_awaitable, state,
                   tasks, dispatch_output, synthesis_prompt, prompt_context,
                   synth_api, raised_in, ncalls>>
    /\ UNCHANGED <<stages, route_case, ml_failed, ml_after_fail>>
    /\ UNCHANGED nonOrchVars

(***************************************************************************)
(* UnifiedLLM (src/src/unified_llm.py)                                     *)
(***************************************************************************)
Strategies == {"gpt5", "deepseek", "hybrid"}
\* the agent types the orchestrator's components construct, and one type
\* ("other") that no table lists
AgentTypes == {"research_synthesis", "financial", "market", "operations",
               "leadgen", "router", "synthesis", "other"}

\* _hybrid_routing, lines 102-114
hybrid_routing(agent_type) ==
    CASE agent_type = "research_synthesis" -> <<"deepseek", "deepseek_reasoner">>
      [] agent_type \in {"financial", "market", "operations", "leadgen",
                         "router", "synthesis"} -> <<"deepseek", "deepseek_chat">>
      [] OTHER -> <<"gpt5", "gpt5">>

\* _select_model, lines 84-100: <<provider, client>>
select_model(strategy, agent_type) ==
    CASE strategy = "gpt5" -> <<"gpt5", "gpt5">>
      [] strategy = "deepseek" ->
            IF agent_type = "research_synthesis"
            THEN <<"deepseek", "deepseek_reasoner">>
            ELSE <<"deepseek", "deepseek_chat">>
      [] strategy = "hybrid" -> hybrid_routing(agent_type)
      [] OTHER -> <<"gpt5", "gpt5">>

\* _get_optimal_max_tokens, lines 129-139
get_optimal_max_tokens(strategy, agent_type) ==
    IF agent_type = "research_synthesis"
    THEN (IF strategy = "hybrid" THEN 32000 ELSE 16000)
    ELSE IF agent_type = "financial" THEN 8000
    ELSE 4000

\* Config.TEMPERATURE_*, config.py lines 20-23, in tenths
TEMPERATURE_CODING       == 0
TEMPERATURE_ANALYSIS     == 10
TEMPERATURE_CONVERSATION == 13
TEMPERATURE_CREATIVE     == 15

\* the temperature settings Config holds
ConfiguredTemperatures ==
    {TEMPERATURE_CODING, TEMPERATURE_ANALYSIS, TEMPERATURE_CONVERSATION,
     TEMPERATURE_CREATIVE}

\* agent_type = None
NoAgentType == "<None>"

\* mutant: the router is missing from the table
get_optimal_temperature_NoRouter(agent_type) ==
    CASE agent_type = "financial"          -> TEMPERATURE_CODING
      [] agent_type = "market"             -> TEMPERATURE_CONVERSATION
      [] agent_type = "operations"         -> TEMPERATURE_ANALYSIS
      [] agent_type = "leadgen"            -> TEMPERATURE_CONVERSATION
      [] agent_type = "research_synthesis" -> TEMPERATURE_ANALYSIS
      [] agent_type = "synthesis"          -> TEMPERATURE_ANALYSIS
      [] OTHER                             -> TEMPERATURE_ANALYSIS

\* _get_optimal_temperature, lines 116-127
get_optimal_temperature(agent_type) ==
    CASE agent_type = "financial"          -> TEMPERATURE_CODING
      [] agent_type = "market"             -> TEMPERATURE_CONVERSATION
      [] agent_type = "operations"         -> TEMPERATURE_ANALYSIS
      [] agent_type = "leadgen"            -> TEMPERATURE_CONVERSATION
      [] agent_type = "research_synthesis" -> TEMPERATURE_ANALYSIS
      [] agent_type = "router"             -> TEMPERATURE_CODING
      [] agent_type = "synthesis"          -> TEMPERATURE_ANALYSIS
      [] OTHER                             -> TEMPERATURE_ANALYSIS

\* temperature=None
NoTemperature == <<>>

\* the temperature arguments a caller passes: None, or a value in tenths
TemperatureArgs == {NoTemperature, <<0>>, <<7>>, <<20>>}

\* UnifiedLLM.generate, lines 38-40: the temperature of the call
ChooseTemperature(temperature) ==
    /\ tp_arg' = temperature
    /\ tp_temperature' = IF temperature = NoTemperature
                         THEN <<get_optimal_temperature(tp_agent_type)>>
                         ELSE temperature
    /\ UNCHANGED <<tp_strategy, tp_agent_type>>
    /\ UNCHANGED nonTempVars

\* the max_tokens the agents pass (agents/market_analysis.py:26)
AgentMaxTokens == 1500

GPT5Text     == "gpt5 output"
DeepSeekText == "deepseek output"

\* arguments of a generate call: input_text, instructions, and max_tokens
\* (has_max_tokens = FALSE stands for max_tokens=None)
Requests ==
    [input_text : {"prompt 1", "prompt 2"},
     instructions : {"", "system prompt"},
     has_max_tokens : BOOLEAN]

\* lines 43-44: the token budget of this call
TokenBudget(strategy, agent_type, req) ==
    IF req.has_max_tokens THEN AgentMaxTokens
    ELSE get_optimal_max_tokens(strategy, agent_type)

ProviderCall(provider, client, req, budget, api) ==
    [provider |-> provider, client |-> client, input_text |-> req.input_text,
     instructions |-> req.instructions, max_tokens |-> budget, api |-> api]

\* what a call of GPT5Wrapper.generate can do: return the model's text
\* ("ok"); return an error text because the API call failed inside its try
\* block ("fail", gpt5_wrapper.py:14-20); or raise, which only an exception
\* outside that try block does, such as the TypeError of a keyword argument
\* forwarded through **kwargs that its signature (line 13) does not take
GPT5Outcomes == {"ok", "fail", "raise"}

\* what a call of DeepSeekWrapper.generate can do: return the model's text,
\* or raise
DeepSeekOutcomes == {"ok", "raise"}

OutcomesOf(provider) == IF provider = "gpt5" THEN GPT5Outcomes ELSE DeepSeekOutcomes

\* the provider client's generate raised
CallRaises(call) == call.api = "raise"

CallText(call) ==
    IF call.provider = "gpt5" THEN GPT5Generate(call.api, GPT5Text)
    ELSE DeepSeekText

\* mutant: the except clause always re-raises
FallsBack_Never(strategy, provider) == FALSE

\* mutant: the except clause falls back whatever the strategy is
FallsBack_AnyStrategy(strategy, provider) == provider = "deepseek"

\* the except clause, lines 69-82: fall back to GPT-5 or re-raise
FallsBack(strategy, provider) == strategy = "hybrid" /\ provider = "deepseek"

\* UnifiedLLM.generate, lines 25-82.  api1 and api2 are the outcomes of the
\* API call of the selected provider and of the fallback provider.
Generate(req, api1, api2) ==
    LET sel    == select_model(llm_strategy, llm_agent_type)
        budget == TokenBudget(llm_strategy, llm_agent_type, req)
        first  == ProviderCall(sel[1], sel[2], req, budget, api1)
        second == ProviderCall("gpt5", "gpt5", req, budget, api2)
    IN  /\ api1 \in OutcomesOf(sel[1])
        /\ llm_request' = req
        /\ IF ~CallRaises(first)
           THEN /\ llm_calls' = <<first>>
                /\ llm_outcome' = "returned"
                /\ llm_result' = CallText(first)
           ELSE IF FallsBack(llm_strategy, sel[1])
           THEN /\ llm_calls' = <<first, second>>
                /\ llm_outcome' = IF CallRaises(second) THEN "raised" ELSE "returned"
                /\ llm_result' = IF CallRaises(second) THEN "" ELSE CallText(second)
           ELSE /\ llm_calls' = <<first>>
                /\ llm_outcome' = "raised"
                /\ llm_result' = ""
        /\ UNCHANGED <<llm_strategy, llm_agent_type>>
        /\ UNCHANGED nonLLMVars

(***************************************************************************)
(* QueryCache and its backends (src/src/cache.py)                          *)
(*                                                                         *)
(* A string is a sequence of tokens: words that hold no colon, and the     *)
(* colon ":" as a token of its own, so that joining strings is sequence    *)
(* concatenation and two strings are equal iff their sequences are.        *)
(* The clock counts days (86400 s).                                        *)
(***************************************************************************)
TTL_RESEARCH == 7   \* 604800 s
TTL_AGENT    == 1   \* 86400 s
TTL_SYNTHESIS == 1  \* 86400 s

\* client_id of a QueryCache: None, or a string
NoClient  == [none |-> TRUE, s |-> <<>>]
ClientIds == {NoClient,
              [none |-> FALSE, s |-> <<>>],
              [none |-> FALSE, s |-> <<"a">>],
              [none |-> FALSE, s |-> <<"a", ":", "agent">>]}

\* `if self.client_id:`
Truthy(c) == ~c.none /\ c.s # <<>>

\* sep.join(parts) for strings as token sequences
RECURSIVE Join(_, _)
Join(parts, sep) ==
    IF parts = <<>> THEN <<>>
    ELSE IF Len(parts) = 1 THEN parts[1]
    ELSE parts[1] \o sep \o Join(Tail(parts), sep)

\* hashlib.sha256(content).hexdigest()[:16]: one word per content, different
\* contents giving different words
Sha256Hex16(content) == ToString(content)

\* mutant: the client id is left out of the key
make_key_Unscoped(c, prefix, parts) ==
    <<prefix, ":", Sha256Hex16(Join(parts, <<":", ":">>))>>

\* _make_key, lines 100-105
make_key(c, prefix, parts) ==
    LET content      == Join(parts, <<":", ":">>)
        content_hash == Sha256Hex16(content)
    IN  IF Truthy(c)
        THEN <<"client", ":">> \o c.s \o <<":", prefix, ":", content_hash>>
        ELSE <<prefix, ":", content_hash>>

\* cached values: JSON-native payloads, the falsy ones included
Values == {"", "text"}
None   == "None"

\* json.dumps(value, default=str) of a text value: the JSON document is the
\* text between double quotes; json.loads takes the quotes off again
JsonDumps(v)   == <<"\"", v, "\"">>
JsonDecode(b)  == IF Len(b) = 3 /\ b[1] = "\"" /\ b[3] = "\"" THEN b[2] ELSE None

NoGet == [done |-> FALSE]

Lookup(st, key) == {e \in st : e.key = key}

\* mutant: an entry is still served at its expiry instant
FileCacheGet_AtExpiry(st, key, t) ==
    IF {e \in st : e.key = key} = {} THEN <<None, st>>
    ELSE LET e == CHOOSE x \in {y \in st : y.key = key} : TRUE
         IN  IF e.expires_at >= t THEN <<JsonDecode(e.data), st>>
             ELSE <<None, st \ {e}>>

\* FileCache.get, lines 53-61: <<value or None, store afterwards>>
FileCacheGet(st, key, t) ==
    IF Lookup(st, key) = {} THEN <<None, st>>
    ELSE LET e == CHOOSE x \in Lookup(st, key) : TRUE
         IN  IF e.expires_at > t THEN <<JsonDecode(e.data), st>>
             ELSE <<None, st \ {e}>>

\* RedisCache.get, lines 32-34, over a key written by setex: the server no
\* longer holds the key once its time to live has elapsed
RedisCacheGet(st, key, t) ==
    IF Lookup(st, key) = {} THEN <<None, st>>
    ELSE LET e == CHOOSE x \in Lookup(st, key) : TRUE
         IN  IF t < e.expires_at THEN <<JsonDecode(e.data), st>>
             ELSE <<None, st \ {e}>>

BackendGet(st, key, t) ==
    IF cache_backend = "file" THEN FileCacheGet(st, key, t)
    ELSE RedisCacheGet(st, key, t)

\* FileCache.set, lines 63-65, and RedisCache.set, lines 36-37: the entry
\* replaces whatever the key held
BackendSet(st, key, value, ttl, t, c) ==
    (st \ Lookup(st, key))
        \cup {[key |-> key, data |-> JsonDumps(value), expires_at |-> t + ttl,
               writer |-> c]}

\* the truth value Python gives a returned value (`if result:`)
ValueTruthy(v) == v \notin {None, ""}

ZeroStats == [hits |-> 0, misses |-> 0, saves |-> 0]

\* no call made yet
NoCalls == [gets |-> 0, sets |-> 0]

\* mutant: a get that finds nothing is not counted
CountGet_HitsOnly(st, v) ==
    IF ValueTruthy(v) THEN [st EXCEPT !.hits = @ + 1] ELSE st

\* the counter update of _get, lines 111-115
CountGet(st, v) ==
    IF ValueTruthy(v) THEN [st EXCEPT !.hits = @ + 1]
    ELSE [st EXCEPT !.misses = @ + 1]

\* mutant: _get does not return early when there is no backend
CacheGet_IgnoresDisabled(c, key) ==
    /\ cache_ops < MaxCacheOps
    /\ cache_ops' = cache_ops + 1
    /\ LET got == BackendGet(store, key, now)
       IN  /\ store' = got[2]
           /\ stats' = [stats EXCEPT ![c] = CountGet(@, got[1])]
           /\ last_get' = [done |-> TRUE, client |-> c, key |-> key,
                           value |-> got[1], time |-> now, writer |-> NoClient]
    /\ since_clear' = [since_clear EXCEPT ![c].gets = @ + 1]
    /\ UNCHANGED <<cache_backend, clients, now, written>>
    /\ UNCHANGED nonCacheVars

\* QueryCache._get, lines 107-116
CacheGet(c, key) ==
    /\ cache_ops < MaxCacheOps
    /\ cache_ops' = cache_ops + 1
    /\ IF cache_backend = "none"
       THEN /\ last_get' = [done |-> TRUE, client |-> c, key |-> key, value |-> None,
                            time |-> now, writer |-> NoClient]
            /\ UNCHANGED <<store, stats>>
       ELSE LET got == BackendGet(store, key, now)
                src == Lookup(store, key)
            IN  /\ store' = got[2]
                /\ stats' = [stats EXCEPT ![c] = CountGet(@, got[1])]
                /\ last_get' = [done |-> TRUE, client |-> c, key |-> key,
                                value |-> got[1], time |-> now,
                                writer |-> IF src = {} THEN NoClient
                                           ELSE (CHOOSE x \in src : TRUE).writer]
    /\ since_clear' = [since_clear EXCEPT ![c].gets = @ + 1]
    /\ UNCHANGED <<cache_backend, clients, now, written>>
    /\ UNCHANGED nonCacheVars

\* QueryCache._set, lines 118-123
CacheSet(c, key, value, ttl) ==
    /\ cache_ops < MaxCacheOps
    /\ cache_ops' = cache_ops + 1
    /\ last_get' = NoGet
    /\ IF cache_backend = "none"
       THEN UNCHANGED <<store, stats, written>>
       ELSE /\ store' = BackendSet(store, key, value, ttl, now, c)
            /\ stats' = [stats EXCEPT ![c].saves = @ + 1]
            /\ written' = {w \in written : w.key # key}
                            \cup {[key |-> key, value |-> value,
                                   expires_at |-> now + ttl]}
    /\ since_clear' = [since_clear EXCEPT ![c].sets = @ + 1]
    /\ UNCHANGED <<cache_backend, clients, now>>
    /\ UNCHANGED nonCacheVars

CacheAgents  == {<<"market">>}
CacheQueries == {<<"q1">>}

\* str(has_research)
BoolStr(b) == IF b THEN <<"True">> ELSE <<"False">>

\* get_research, lines 125-127
GetResearch(c, q) == CacheGet(c, make_key(c, "research", <<q>>))

\* set_research, lines 129-131
SetResearch(c, q, papers) ==
    CacheSet(c, make_key(c, "research", <<q>>), papers, TTL_RESEARCH)

\* get_agent_response, lines 133-135
GetAgentResponse(c, agent, q, has_research) ==
    CacheGet(c, make_key(c, "agent", <<agent, q, BoolStr(has_research)>>))

\* set_agent_response, lines 137-139
SetAgentResponse(c, agent, q, response, has_research) ==
    CacheSet(c, make_key(c, "agent", <<agent, q, BoolStr(has_research)>>),
             response, TTL_AGENT)

\* the order sorted() puts the worker ids in
AgentRank(a) ==
    CASE a = "financial"  -> 1
      [] a = "leadgen"    -> 2
      [] a = "market"     -> 3
      [] a = "operations" -> 4

\* list.insert at the place the order gives
RECURSIVE Insert(_, _)
Insert(a, sorted) ==
    IF sorted = <<>> THEN <<a>>
    ELSE IF AgentRank(a) <= AgentRank(Head(sorted)) THEN <<a>> \o sorted
    ELSE <<Head(sorted)>> \o Insert(a, Tail(sorted))

\* sorted(agents_used)
RECURSIVE Sorted(_)
Sorted(agents) ==
    IF agents = <<>> THEN <<>> ELSE Insert(Head(agents), Sorted(Tail(agents)))

\* the strings of a list, each a one-word string
AsStrings(agents) == [i \in 1..Len(agents) |-> <<agents[i]>>]

\* mutant: the worker ids are joined in the order given
synthesis_key_Unsorted(c, query, agents_used) ==
    make_key(c, "synthesis", <<query, Join(AsStrings(agents_used), <<":">>)>>)

\* get_synthesis / set_synthesis, lines 142-143 and 147-148: the key
synthesis_key(c, query, agents_used) ==
    LET agents_key == Join(AsStrings(Sorted(agents_used)), <<":">>)
    IN  make_key(c, "synthesis", <<query, agents_key>>)

\* the worker lists a synthesis is cached for
SynthAgentLists ==
    {<<"market", "financial">>, <<"financial", "market">>, <<"market">>}

\* get_synthesis, lines 141-144
GetSynthesis(c, q, agents_used) == CacheGet(c, synthesis_key(c, q, agents_used))

\* set_synthesis, lines 146-149
SetSynthesis(c, q, agents_used, synthesis) ==
    CacheSet(c, synthesis_key(c, q, agents_used), synthesis, TTL_SYNTHESIS)

\* the backend of the instance can be talked to: FileCache is local, a
\* RedisCache needs its server
BackendReachable == cache_backend = "redis" => redis_up

\* an exception of the backend leaves _get / _set (no try around
\* self.backend.get, line 110, or self.backend.set, line 121)
BackendRaises(op) ==
    /\ cache_ops < MaxCacheOps
    /\ cache_ops' = cache_ops + 1
    /\ cache_raised' = op
    /\ UNCHANGED <<cache_backend, clients, store, stats, now, last_get, written,
                   since_clear, redis_up>>
    /\ UNCHANGED nonCacheNetVars

\* get_research while the server may be away: RedisCache.get, lines 32-34,
\* raises out of self.redis.get when the server does not answer
GetResearchNet(c, q) ==
    IF BackendReachable THEN GetResearch(c, q) ELSE BackendRaises("get")

\* set_research while the server may be away: RedisCache.set, lines 36-37
SetResearchNet(c, q, papers) ==
    IF BackendReachable THEN SetResearch(c, q, papers) ELSE BackendRaises("set")

\* the server stops answering
RedisFails ==
    /\ redis_up
    /\ redis_up' = FALSE
    /\ UNCHANGED <<cache_raised, cacheVars, nonCacheNetVars>>

\* the server answers again
RedisRecovers ==
    /\ ~redis_up
    /\ redis_up' = TRUE
    /\ UNCHANGED <<cache_raised, cacheVars, nonCacheNetVars>>

\* QueryCache.clear, lines 159-163, over FileCache.clear / RedisCache.clear:
\* every entry of the backend goes, and this client's counters are reset
Clear(c) ==
    /\ cache_ops < MaxCacheOps
    /\ cache_ops' = cache_ops + 1
    /\ last_get' = NoGet
    /\ IF cache_backend = "none"
       THEN UNCHANGED <<store, stats, written>>
       ELSE /\ store' = {}
            /\ written' = {}
            /\ stats' = [stats EXCEPT ![c] = ZeroStats]
    /\ since_clear' = [since_clear EXCEPT ![c] = NoCalls]
    /\ UNCHANGED <<cache_backend, clients, now>>
    /\ UNCHANGED nonCacheVars

\* time passes
Tick(t) ==
    /\ cache_ops < MaxCacheOps
    /\ cache_ops' = cache_ops + 1
    /\ t > now
    /\ t <= MaxTime
    /\ now' = t
    /\ UNCHANGED <<cache_backend, clients, store, stats, last_get, written, since_clear>>
    /\ UNCHANGED nonCacheVars

\* get_stats, lines 165-168: hit_rate_percent, in whole percent
HitRatePercent(st) ==
    LET total == st.hits + st.misses
    IN  IF total > 0 THEN (st.hits * 100) \div total ELSE 0

(***************************************************************************)
(* A worker task: the dispatcher's call of an agent method (lines 276-297   *)
(* of langgraph_orchestrator.py) and the method itself, such as             *)
(* OperationsAuditAgent.audit (agents/operations_audit.py:12-25): the       *)
(* prompt is built from the query and the research context, the provider   *)
(* is called through self.llm.generate, and an exception of that call is    *)
(* returned as an error text.                                              *)
(***************************************************************************)
WorkerQueries == {"q1", "q2"}

WorkerKeys == Workers \X WorkerQueries \X BOOLEAN

\* what self.llm.generate does for the agent: return text, or raise
WorkerApiOutcomes == {"ok", "raise"}

WorkerErrorText == "Error in worker: provider failure"

NoWorkerOutput == [done |-> FALSE]

WorkerTask(w, q, rc, api) ==
    /\ wk_ops < MaxWorkerRuns
    /\ wk_ops' = wk_ops + 1
    /\ wk_calls' = [wk_calls EXCEPT ![<<w, q, rc # "">>] = @ + 1]
    /\ wk_output' = [done |-> TRUE, worker |-> w, query |-> q,
                     has_research |-> (rc # ""),
                     text |-> IF api = "ok" THEN WorkerOutput ELSE WorkerErrorText]
    /\ UNCHANGED nonWorkerVars

(***************************************************************************)
(* Keyword routing: PrimaryOrchestrator.determine_agents_needed             *)
(* (src/src/orchestrator.py:26-43).  Here a string is the sequence of its   *)
(* characters, so that `keyword in query_lower` is a substring test.        *)
(***************************************************************************)
\* line 29
market_keywords ==
    {<<"m", "a", "r", "k", "e", "t">>,
     <<"c", "o", "m", "p", "e", "t", "i", "t", "i", "o", "n">>,
     <<"c", "o", "m", "p", "e", "t", "i", "t", "o", "r">>,
     <<"i", "n", "d", "u", "s", "t", "r", "y">>,
     <<"t", "r", "e", "n", "d">>,
     <<"c", "u", "s", "t", "o", "m", "e", "r", " ", "s", "e", "g", "m", "e", "n", "t">>,
     <<"t", "a", "r", "g", "e", "t", " ", "a", "u", "d", "i", "e", "n", "c", "e">>}

\* line 32
ops_keywords ==
    {<<"p", "r", "o", "c", "e", "s", "s">>,
     <<"e", "f", "f", "i", "c", "i", "e", "n", "c", "y">>,
     <<"w", "o", "r", "k", "f", "l", "o", "w">>,
     <<"o", "p", "e", "r", "a", "t", "i", "o", "n">>,
     <<"o", "p", "t", "i", "m", "i", "z", "e">>,
     <<"a", "u", "t", "o", "m", "a", "t", "e">>,
     <<"s", "c", "a", "l", "e">>,
     <<"b", "o", "t", "t", "l", "e", "n", "e", "c", "k">>}

\* line 35
financial_keywords ==
    {<<"f", "i", "n", "a", "n", "c", "i", "a", "l">>,
     <<"r", "e", "v", "e", "n", "u", "e">>,
     <<"c", "o", "s", "t">>,
     <<"p", "r", "o", "f", "i", "t">>,
     <<"r", "o", "i">>,
     <<"b", "u", "d", "g", "e", "t">>,
     <<"p", "r", "i", "c", "i", "n", "g">>,
     <<"i", "n", "v", "e", "s", "t", "m", "e", "n", "t">>,
     <<"m", "o", "n", "e", "y">>}

\* line 38
leadgen_keywords ==
    {<<"l", "e", "a", "d">>,
     <<"c", "u", "s", "t", "o", "m", "e", "r", " ", "a", "c", "q", "u", "i", "s", "i", "t", "i", "o", "n">>,
     <<"g", "r", "o", "w", "t", "h">>,
     <<"s", "a", "l", "e", "s">>,
     <<"m", "a", "r", "k", "e", "t", "i", "n", "g">>,
     <<"f", "u", "n", "n", "e", "l">>,
     <<"c", "o", "n", "v", "e", "r", "s", "i", "o", "n">>,
     <<"a", "c", "q", "u", "i", "r", "e">>}

\* the keyword table of a worker
KeywordTable(w) ==
    CASE w = "market"     -> market_keywords
      [] w = "operations" -> ops_keywords
      [] w = "financial"  -> financial_keywords
      [] w = "leadgen"    -> leadgen_keywords

\* str.lower() on one character
LowerChar(c) ==
    CASE
         c = "A" -> "a"
      [] c = "B" -> "b"
      [] c = "C" -> "c"
      [] c = "D" -> "d"
      [] c = "E" -> "e"
      [] c = "F" -> "f"
      [] c = "G" -> "g"
      [] c = "H" -> "h"
      [] c = "I" -> "i"
      [] c = "J" -> "j"
      [] c = "K" -> "k"
      [] c = "L" -> "l"
      [] c = "M" -> "m"
      [] c = "N" -> "n"
      [] c = "O" -> "o"
      [] c = "P" -> "p"
      [] c = "Q" -> "q"
      [] c = "R" -> "r"
      [] c = "S" -> "s"
      [] c = "T" -> "t"
      [] c = "U" -> "u"
      [] c = "V" -> "v"
      [] c = "W" -> "w"
      [] c = "X" -> "x"
      [] c = "Y" -> "y"
      [] c = "Z" -> "z"
      [] OTHER -> c

\* query.lower(), line 27
Lower(q) == [i \in 1..Len(q) |-> LowerChar(q[i])]

\* `keyword in query_lower`
Contains(kw, text) ==
    \E i \in 1..(Len(text) - Len(kw) + 1) : SubSeq(text, i, i + Len(kw) - 1) = kw

\* any(keyword in query_lower for keyword in keywords)
AnyKeyword(keywords, text) == \E kw \in keywords : Contains(kw, text)

\* mutant: the query is matched as typed, without lower-casing
determine_agents_needed_CaseSensitive(query) ==
    LET agents_needed == [w \in Workers |-> AnyKeyword(KeywordTable(w), query)]
    IN  IF \A w \in Workers : ~agents_needed[w]
        THEN [w \in Workers |-> TRUE]
        ELSE agents_needed

\* determine_agents_needed, lines 26-43
determine_agents_needed(query) ==
    LET query_lower   == Lower(query)
        agents_needed == [w \in Workers |-> AnyKeyword(KeywordTable(w), query_lower)]
    IN  IF \A w \in Workers : ~agents_needed[w]
        THEN [w \in Workers |-> TRUE]
        ELSE agents_needed

\* orchestrate, line 72: [k for k, v in agents_needed.items() if v]
AgentsConsulted(agents_needed) ==
    SelectSeq(ALL_AGENTS, LAMBDA w : agents_needed[w])

\* the words the queries of SpecKw are made of: keywords in capitals, words
\* that hold a keyword inside them, halves of a two-word keyword, and a word
\* that holds none
KwWords ==
    {<<"R", "O", "I">>,
     <<"h", "e", "r", "o", "i", "c">>,
     <<"M", "a", "r", "k", "e", "t", "i", "n", "g">>,
     <<"e", "s", "c", "a", "l", "a", "t", "e">>,
     <<"c", "u", "s", "t", "o", "m", "e", "r">>,
     <<"s", "e", "g", "m", "e", "n", "t">>,
     <<"f", "u", "n", "n", "e", "l">>,
     <<"p", "l", "a", "n">>}

\* the queries: up to MaxWords words joined by blanks
KwQueries == {Join(ws, <<" ">>) : ws \in SeqsUpTo(KwWords, MaxWords)}

NoDecision == [done |-> FALSE]

\* one call of determine_agents_needed and the agents_consulted list built
\* from its answer
DetermineAgents ==
    /\ ~kw_result.done
    /\ kw_result' = [done |-> TRUE,
                     agents_needed |-> determine_agents_needed(kw_query),
                     agents_consulted |->
                         AgentsConsulted(determine_agents_needed(kw_query))]
    /\ UNCHANGED kw_query
    /\ UNCHANGED nonKwVars

(***************************************************************************)
(* Initial states and specifications                                       *)
(***************************************************************************)
\* LangGraphOrchestrator.__init__, lines 35-81.  The classifier is loaded only
\* when ML routing is requested and its artifact exists; otherwise
\* use_ml_routing is switched off (lines 55-69).
OrchInit ==
    /\ enable_rag \in BOOLEAN
    /\ use_ml_routing \in BOOLEAN
    /\ ml_router = use_ml_routing
    /\ agents_awaitable \in BOOLEAN
    /\ memory = <<>>
    /\ pc = "idle"
    /\ state = InitialState("q1", TRUE)
    /\ tasks = NoTasks
    /\ dispatch_output = NoOutput
    /\ synthesis_prompt = {}
    /\ prompt_context = FALSE
    /\ synth_api = "none"
    /\ raised_in = "none"
    /\ result = NoResult
    /\ ncalls = 0
    /\ stages = <<>>
    /\ route_case = "none"
    /\ ml_failed = FALSE
    /\ ml_after_fail = FALSE

OrchIdle ==
    /\ enable_rag = FALSE
    /\ use_ml_routing = FALSE
    /\ ml_router = FALSE
    /\ agents_awaitable = FALSE
    /\ memory = <<>>
    /\ pc = "idle"
    /\ state = InitialState("q1", TRUE)
    /\ tasks = NoTasks
    /\ dispatch_output = NoOutput
    /\ synthesis_prompt = {}
    /\ prompt_context = FALSE
    /\ synth_api = "none"
    /\ raised_in = "none"
    /\ result = NoResult
    /\ ncalls = 0
    /\ stages = <<>>
    /\ route_case = "none"
    /\ ml_failed = FALSE
    /\ ml_after_fail = FALSE

NoRequest == [input_text |-> "", instructions |-> "", has_max_tokens |-> FALSE]

\* UnifiedLLM.__init__, lines 9-23
LLMInit ==
    /\ llm_strategy \in Strategies
    /\ llm_agent_type \in AgentTypes
    /\ llm_calls = <<>>
    /\ llm_request = NoRequest
    /\ llm_outcome = "none"
    /\ llm_result = ""

LLMIdle ==
    /\ llm_strategy = "hybrid"
    /\ llm_agent_type = "other"
    /\ llm_calls = <<>>
    /\ llm_request = NoRequest
    /\ llm_outcome = "none"
    /\ llm_result = ""

\* UnifiedLLM.__init__, lines 9-12, before any generate call
TempInit ==
    /\ tp_strategy \in Strategies
    /\ tp_agent_type \in AgentTypes \cup {NoAgentType}
    /\ tp_arg = NoTemperature
    /\ tp_temperature = <<>>

TempIdle ==
    /\ tp_strategy = "gpt5"
    /\ tp_agent_type = NoAgentType
    /\ tp_arg = NoTemperature
    /\ tp_temperature = <<>>

\* _execute_agents_parallel has launched the tasks of a non-empty routing
\* decision, line 299 reached
GaInit ==
    /\ ga_agents \in SeqsUpTo(Workers, MaxRouteLen) \ {<<>>}
    /\ ga_outcome \in [Fields -> TaskOutcomes]
    /\ ga_pending = Range(TaskKeys(ga_agents))
    /\ ga_order = <<>>
    /\ ga_output = NoOutput
    /\ ga_stored = [f \in Fields |-> ""]

GaIdle ==
    /\ ga_agents = <<>>
    /\ ga_outcome = [f \in Fields |-> "ok"]
    /\ ga_pending = {}
    /\ ga_order = <<>>
    /\ ga_output = NoOutput
    /\ ga_stored = [f \in Fields |-> ""]

\* _execute_agents_parallel entered with a non-empty routing decision
WebInit ==
    /\ wb_agents \in SeqsUpTo(Workers, MaxRouteLen) \ {<<>>}
    /\ wb_web \in {EmptyWeb, WebResults}
    /\ wb_pc = "blocks"
    /\ wb_block = 1
    /\ wb_lookups = 0
    /\ wb_events = <<>>
    /\ wb_args = [w \in Workers |-> NotLaunched]

WebIdle ==
    /\ wb_agents = <<>>
    /\ wb_web = EmptyWeb
    /\ wb_pc = "gather"
    /\ wb_block = 4
    /\ wb_lookups = 0
    /\ wb_events = <<>>
    /\ wb_args = [w \in Workers |-> NotLaunched]

\* the Redis server answers and no cache call has raised
NetIdle ==
    /\ redis_up = TRUE
    /\ cache_raised = "none"

\* QueryCache.__init__ and _init_backend, lines 77-98: caching disabled, the
\* Redis backend, or the file backend when Redis cannot be reached
CacheInit ==
    /\ cache_backend \in {"none", "redis", "file"}
    /\ clients \in {cs \in SUBSET ClientIds : Cardinality(cs) = 2}
    /\ store = {}
    /\ stats = [c \in clients |-> ZeroStats]
    /\ now = 0
    /\ last_get = NoGet
    /\ written = {}
    /\ cache_ops = 0
    /\ since_clear = [c \in clients |-> NoCalls]

CacheIdle ==
    /\ cache_backend = "none"
    /\ clients = {}
    /\ store = {}
    /\ stats = [c \in clients |-> ZeroStats]
    /\ now = 0
    /\ last_get = NoGet
    /\ written = {}
    /\ cache_ops = 0
    /\ since_clear = [c \in clients |-> NoCalls]

\* ConversationMemory.__init__, lines 7-9
MemInit ==
    /\ mem_capacity \in 0..MaxCapacity
    /\ mem_messages = <<>>
    /\ mem_history = <<>>
    /\ mem_got = NoMessages
    /\ mem_ops = 0

MemIdle ==
    /\ mem_capacity = 0
    /\ mem_messages = <<>>
    /\ mem_history = <<>>
    /\ mem_got = NoMessages
    /\ mem_ops = 0

\* no worker task has run
WorkerInit ==
    /\ wk_calls = [k \in WorkerKeys |-> 0]
    /\ wk_output = NoWorkerOutput
    /\ wk_ops = 0

\* _init_backend, lines 87-98: None when caching is switched off, RedisCache
\* when its constructor's ping succeeds, FileCache when it raises
init_backend(cache_enabled, reachable) ==
    IF ~cache_enabled THEN "none"
    ELSE IF reachable THEN "redis"
    ELSE "file"

\* QueryCache instances built while the server is up or down
NetCacheInit ==
    /\ redis_up \in BOOLEAN
    /\ cache_raised = "none"
    /\ CacheInit
    /\ \E cache_enabled \in BOOLEAN :
          cache_backend = init_backend(cache_enabled, redis_up)

\* the cache the worker tasks run beside: enabled, one unscoped QueryCache
WorkerCacheInit ==
    /\ cache_backend \in {"redis", "file"}
    /\ clients = {NoClient}
    /\ store = {}
    /\ stats = [c \in clients |-> ZeroStats]
    /\ now = 0
    /\ last_get = NoGet
    /\ written = {}
    /\ cache_ops = 0
    /\ since_clear = [c \in clients |-> NoCalls]

\* the query determine_agents_needed is called with
KwInit ==
    /\ kw_query \in KwQueries
    /\ kw_result = NoDecision

KwIdle ==
    /\ kw_query = <<>>
    /\ kw_result = NoDecision

InitOrch   == OrchInit /\ LLMIdle /\ CacheIdle /\ MemIdle /\ WorkerInit /\ KwIdle /\ NetIdle /\ TempIdle /\ GaIdle /\ WebIdle
InitLLM    == OrchIdle /\ LLMInit /\ CacheIdle /\ MemIdle /\ WorkerInit /\ KwIdle /\ NetIdle /\ TempIdle /\ GaIdle /\ WebIdle
InitCache  == OrchIdle /\ LLMIdle /\ CacheInit /\ MemIdle /\ WorkerInit /\ KwIdle /\ NetIdle /\ TempIdle /\ GaIdle /\ WebIdle
InitMem    == OrchIdle /\ LLMIdle /\ CacheIdle /\ MemInit /\ WorkerInit /\ KwIdle /\ NetIdle /\ TempIdle /\ GaIdle /\ WebIdle
InitWorker == OrchIdle /\ LLMIdle /\ WorkerCacheInit /\ MemIdle /\ WorkerInit /\ KwIdle /\ NetIdle /\ TempIdle /\ GaIdle /\ WebIdle
InitNet    == OrchIdle /\ LLMIdle /\ NetCacheInit /\ MemIdle /\ WorkerInit /\ KwIdle /\ TempIdle /\ GaIdle /\ WebIdle
InitTemp   == OrchIdle /\ LLMIdle /\ CacheIdle /\ MemIdle /\ WorkerInit /\ KwIdle /\ NetIdle /\ TempInit /\ GaIdle /\ WebIdle
InitGa     == OrchIdle /\ LLMIdle /\ CacheIdle /\ MemIdle /\ WorkerInit /\ KwIdle /\ NetIdle /\ TempIdle /\ GaInit /\ WebIdle
InitWeb    == OrchIdle /\ LLMIdle /\ CacheIdle /\ MemIdle /\ WorkerInit /\ KwIdle /\ NetIdle /\ TempIdle /\ GaIdle /\ WebInit
InitKw     == OrchIdle /\ LLMIdle /\ CacheIdle /\ MemIdle /\ WorkerInit /\ KwInit /\ NetIdle /\ TempIdle /\ GaIdle /\ WebIdle

NextOrch ==
    \/ \E q \in Queries, um \in BOOLEAN : OrchestrateStart(q, um)
    \/ /\ pc = "router"
       /\ \E ml \in MLResponses, api \in RouterApiOutcomes, text \in RouterTexts :
             RouterInputs(ml, api, text) /\ RouterNode(ml, api, text)
    \/ \E o \in ResearchOutcomes : ResearchNode(o)
    \/ DispatchSkip
    \/ DispatchLaunch
    \/ \E f \in Fields, o \in TaskOutcomes : TaskFinish(f, o)
    \/ DispatchJoin
    \/ \E api \in ApiOutcomes : SynthesisNode(api)
    \/ OrchestrateReturn

NextLLM ==
    \E req \in Requests, api1 \in GPT5Outcomes \cup DeepSeekOutcomes,
       api2 \in GPT5Outcomes :
        Generate(req, api1, api2)

NextCache ==
    \/ \E c \in clients, q \in CacheQueries : GetResearch(c, q)
    \/ \E c \in clients, q \in CacheQueries, v \in Values : SetResearch(c, q, v)
    \/ \E c \in clients, a \in CacheAgents, q \in CacheQueries, h \in BOOLEAN :
          GetAgentResponse(c, a, q, h)
    \/ \E c \in clients, a \in CacheAgents, q \in CacheQueries, h \in BOOLEAN,
          v \in Values : SetAgentResponse(c, a, q, v, h)
    \/ \E c \in clients : Clear(c)
    \/ \E t \in 1..MaxTime : Tick(t)

NextMem ==
    \/ \E t \in MemTurns : MemAdd(t[1], t[2])
    \/ MemGetMessages
    \/ MemClear

SpecOrch  == InitOrch /\ [][NextOrch]_vars
SpecMem   == InitMem /\ [][NextMem]_vars

NextWorker ==
    \E w \in Workers, q \in WorkerQueries, rc \in {"", ResearchContext},
       api \in WorkerApiOutcomes : WorkerTask(w, q, rc, api)

SpecWorker == InitWorker /\ [][NextWorker]_vars

\* the synthesis cache on its own
NextSynth ==
    \/ \E c \in clients, q \in CacheQueries, a \in SynthAgentLists :
          GetSynthesis(c, q, a)
    \/ \E c \in clients, q \in CacheQueries, a \in SynthAgentLists, v \in Values :
          SetSynthesis(c, q, a, v)
    \/ \E t \in 1..MaxTime : Tick(t)

SpecSynth == InitCache /\ [][NextSynth]_vars

\* the cache and the server it was built against
NextNet ==
    \/ \E c \in clients, q \in CacheQueries : GetResearchNet(c, q)
    \/ \E c \in clients, q \in CacheQueries, v \in Values : SetResearchNet(c, q, v)
    \/ \E t \in 1..MaxTime : Tick(t)
    \/ RedisFails
    \/ RedisRecovers

SpecNet == InitNet /\ [][NextNet]_vars

NextTemp == \E temperature \in TemperatureArgs : ChooseTemperature(temperature)

SpecTemp == InitTemp /\ [][NextTemp]_vars

NextGa ==
    \/ \E f \in Fields : GaFinish(f)
    \/ GaJoin

SpecGa == InitGa /\ [][NextGa]_vars

NextWeb == \E o \in LookupOutcomes : WbBlock(o)

SpecWeb == InitWeb /\ [][NextWeb]_vars

NextKw == DetermineAgents

SpecKw == InitKw /\ [][NextKw]_vars
SpecLLM   == InitLLM /\ [][NextLLM]_vars
SpecCache == InitCache /\ [][NextCache]_vars

Init == InitOrch
Next == NextOrch
Spec == SpecOrch

(***************************************************************************)
(* Properties                                                              *)
(***************************************************************************)
\* the result holds a finding for worker id w
HasEntry(r, w) ==
    /\ FieldOf(w) \in Fields
    /\ r.detailed_findings[FieldOf(w)] # ""

\* C1: every result orchestrate returns holds a finding for each worker
\* listed in agents_consulted and none for a worker that was not consulted.
C1_ResultComplete ==
    result.returned =>
        \A w \in Workers \cup RouterNames :
            (w \in Range(result.agents_consulted)) <=> HasEntry(result, w)

\* C2: no exception leaves the dispatcher, and the map it returns has one
\* entry per routed worker: the error string for a failed worker, the output
\* for every other worker.
C2_DispatchComplete ==
    /\ raised_in # "agents_parallel"
    /\ dispatch_output.returned =>
          /\ \A w \in Range(state.agents_to_call) :
                FieldOf(w) \in DOMAIN dispatch_output.map
          /\ \A f \in DOMAIN dispatch_output.map :
                dispatch_output.map[f] =
                    IF tasks[f] = "exc" THEN DispatchError ELSE WorkerOutput

\* C3: the worker list the router stored as the routing decision is never
\* empty.
C3_RoutingNonEmpty ==
    pc \notin {"idle", "router"} => state.agents_to_call # <<>>

HybridFallbackCase ==
    /\ llm_outcome # "none"
    /\ llm_strategy = "hybrid"
    /\ llm_calls[1].provider = "deepseek"
    /\ CallRaises(llm_calls[1])

\* C4: in hybrid mode, when the non-primary provider raises, generate calls
\* the primary exactly once with the same prompt, instructions and token
\* budget; it returns the primary's output if that call returns and raises,
\* with no further call, if that call raises.
C4_HybridFallback ==
    HybridFallbackCase =>
        /\ Len(llm_calls) = 2
        /\ llm_calls[2].provider = "gpt5"
        /\ llm_calls[2].input_text = llm_calls[1].input_text
        /\ llm_calls[2].input_text = llm_request.input_text
        /\ llm_calls[2].instructions = llm_calls[1].instructions
        /\ llm_calls[2].instructions = llm_request.instructions
        /\ llm_calls[2].max_tokens = llm_calls[1].max_tokens
        /\ IF CallRaises(llm_calls[2])
           THEN llm_outcome = "raised"
           ELSE /\ llm_outcome = "returned"
                /\ llm_result = GPT5Generate(llm_calls[2].api, GPT5Text)

C4_Witness ==
    /\ HybridFallbackCase
    /\ Len(llm_calls) = 2
    /\ CallRaises(llm_calls[2])
    /\ llm_outcome = "raised"

\* C5: a second provider call is made only in hybrid mode after the
\* non-primary provider raised; in every other case generate makes exactly
\* one provider call, and an exception of that call reaches the caller.
C5_NoOtherFallback ==
    /\ Len(llm_calls) <= 2
    /\ Len(llm_calls) = 2 => HybridFallbackCase
    /\ (llm_outcome # "none" /\ ~HybridFallbackCase) =>
          /\ Len(llm_calls) = 1
          /\ CallRaises(llm_calls[1]) <=> llm_outcome = "raised"

C5_Witness ==
    /\ llm_strategy = "deepseek"
    /\ Len(llm_calls) = 1
    /\ CallRaises(llm_calls[1])
    /\ llm_outcome = "raised"

\* the latest write on the key of the last get
WritesOn(key) == {w \in written : w.key = key}

Namespace(c) == IF Truthy(c) THEN c.s ELSE <<>>

AgentParts == {<<a, q, BoolStr(h)>> : a \in CacheAgents, q \in CacheQueries, h \in BOOLEAN}
ResearchParts == {<<q>> : q \in CacheQueries}

\* C9: for the same category and parts, clients of different identity get
\* different keys, and a get never returns a value stored under another
\* client identity.
C9_ClientScopedKeys ==
    /\ \A c1, c2 \in clients :
          Namespace(c1) # Namespace(c2) =>
              /\ \A parts \in AgentParts :
                    make_key(c1, "agent", parts) # make_key(c2, "agent", parts)
              /\ \A parts \in ResearchParts :
                    make_key(c1, "research", parts) # make_key(c2, "research", parts)
    /\ (last_get.done /\ last_get.value # None) =>
          Namespace(last_get.writer) = Namespace(last_get.client)

\* a client reads the parts another client identity has a live entry for
C9_Witness ==
    /\ last_get.done
    /\ last_get.value = None
    /\ \E e \in store, parts \in AgentParts :
          /\ e.expires_at > now
          /\ Namespace(e.writer) # Namespace(last_get.client)
          /\ e.key = make_key(e.writer, "agent", parts)
          /\ last_get.key = make_key(last_get.client, "agent", parts)

\* C10: with caching disabled every get returns absent, nothing is stored,
\* and the hit, miss and save counters and the hit rate stay 0.
C10_DisabledCache ==
    cache_backend = "none" =>
        /\ store = {}
        /\ last_get.done => last_get.value = None
        /\ \A c \in clients :
              /\ stats[c] = ZeroStats
              /\ HitRatePercent(stats[c]) = 0

C10_Witness ==
    /\ cache_backend = "none"
    /\ last_get.done
    /\ cache_ops >= 2

\* the last n items of a sequence
LastN(s, n) ==
    IF Len(s) <= n THEN s ELSE SubSeq(s, Len(s) - n + 1, Len(s))

\* C11: get_messages returns min(N, adds since the last clear) entries, the
\* most recently added turns from oldest to newest; the older turns have been
\* evicted, and after clear the memory is empty.
C11_BoundedFIFO ==
    mem_got.done =>
        LET n == Len(mem_history)
            k == IF mem_capacity < n THEN mem_capacity ELSE n
        IN  /\ Len(mem_got.messages) = k
            /\ \A i \in 1..k : mem_got.messages[i] = mem_history[n - k + i]
            /\ mem_got.messages = LastN(mem_history, mem_capacity)

\* two turns have been evicted from a memory of capacity 2
C11_Witness ==
    /\ mem_got.done
    /\ mem_capacity = 2
    /\ Len(mem_history) = 4
    /\ mem_got.messages = SubSeq(mem_history, 3, 4)
    /\ mem_history[1] # mem_history[3]

\* the order _build_graph wires the nodes in
ExpectedStages ==
    IF enable_rag
    THEN <<"router", "research_synthesis", "agents_parallel", "synthesis">>
    ELSE <<"router", "agents_parallel", "synthesis">>

IsPrefix(a, b) == Len(a) <= Len(b) /\ \A i \in 1..Len(a) : a[i] = b[i]

\* C12: within one orchestrate call the stages entered are, in order, Router,
\* Research (exactly when it is enabled), Dispatcher, Synthesis: each at most
\* once, none before its predecessor has finished, none re-entered; a call
\* that reaches the end has run them all, and synthesis does not start while
\* a worker task is pending.
C12_StageOrder ==
    /\ IsPrefix(stages, ExpectedStages)
    /\ pc \in {"end", "returned"} => stages = ExpectedStages
    /\ pc = "raised" => stages[Len(stages)] = raised_in
    /\ (\E f \in Fields : tasks[f] = "pending") =>
          (pc = "gather" /\ stages[Len(stages)] = "agents_parallel")

\* a second call of an orchestrator with research enabled has run all four stages
C12_Witness ==
    /\ pc = "returned"
    /\ ncalls = 2
    /\ enable_rag
    /\ stages = <<"router", "research_synthesis", "agents_parallel", "synthesis">>

\* C13: orchestrate writes ConversationMemory at two points only, never while
\* worker tasks are in flight: on entry, before the router, the user turn, and
\* after synthesis the assistant turn holding the synthesis text, each only
\* when use_memory is true; with use_memory false the memory is not written.
C13_MemoryWrites ==
    [][LET isStart  == pc \in {"idle", "returned", "raised"} /\ pc' = "router"
           isReturn == pc = "end" /\ pc' = "returned"
       IN  /\ memory' # memory => (isStart \/ isReturn)
           /\ isStart =>
                 /\ stages' = <<>>
                 /\ memory' = IF state'.use_memory
                              THEN LastN(Append(memory, <<"user", state'.query>>),
                                         MAX_MEMORY_MESSAGES)
                              ELSE memory
           /\ isReturn =>
                 /\ "synthesis" \in Range(stages)
                 /\ memory' = IF state.use_memory
                              THEN LastN(Append(memory, <<"assistant", state.synthesis>>),
                                         MAX_MEMORY_MESSAGES)
                              ELSE memory
           /\ (pc = "gather" \/ pc' = "gather") => memory' = memory
      ]_vars

\* a call with use_memory true stored both turns and a later call with
\* use_memory false has returned without writing
C13_Witness ==
    /\ pc = "returned"
    /\ ncalls = 2
    /\ ~state.use_memory
    /\ dispatch_output.returned
    /\ Len(memory) = 2
    /\ memory[1] = <<"user", "q1">>
    /\ memory[2][1] = "assistant"

\* the cache key of a worker's response
WorkerCacheKey(k) ==
    make_key(NoClient, "agent", <<(<<k[1]>>), (<<k[2]>>), BoolStr(k[3])>>)

\* C14: a worker task that called the provider has written its result to the
\* cache under (worker id, query, has-research flag), and a second dispatch
\* of the same worker for the same query and flag, the entry not having
\* expired, makes no provider call.
C14_WorkerCached ==
    \A k \in WorkerKeys :
        /\ wk_calls[k] >= 1 => \E en \in store : en.key = WorkerCacheKey(k)
        /\ wk_calls[k] <= 1

\* C15: in semantic routing, when the provider call raises or fails, or its
\* response is no JSON after the code fences are stripped, or it is the empty
\* array, the routing decision is the full worker list market, operations,
\* financial, leadgen, and the router does not raise.
C15_SemanticFallback ==
    route_case \in {"raised", "error_text", "unparsable", "empty"} =>
        /\ state.agents_to_call = <<"market", "operations", "financial", "leadgen">>
        /\ raised_in # "router"
        /\ "router" \in Range(stages)

\* the provider answered the empty array and all four workers were consulted
C15_Witness ==
    /\ route_case = "empty"
    /\ pc = "returned"
    /\ result.agents_consulted = ALL_AGENTS
    /\ \A f \in Fields : result.detailed_findings[f] # ""

\* C16: an orchestrator built without the classifier artifact never asks the
\* classifier, and once the classifier has raised in a routing call it is not
\* invoked again by any later routing call of the instance.
C16_DowngradePermanent ==
    /\ ~use_ml_routing => route_case # "classifier"
    /\ ~ml_after_fail

\* the keyword occurs in the text: some position holds it character by character
Occurs(kw, text) ==
    \E i \in 1..Len(text) :
        /\ i + Len(kw) - 1 <= Len(text)
        /\ \A j \in 1..Len(kw) : text[i + j - 1] = kw[j]

\* some keyword of the worker's table occurs in the lower-cased query
Hit(w, q) == \E kw \in KeywordTable(w) : Occurs(kw, Lower(q))

\* C17: determine_agents_needed selects exactly the workers with a keyword of
\* their table occurring as a substring of the lower-cased query, and all four
\* workers when no keyword of any table occurs; the query "ROI" yields
\* exactly financial.
C17_KeywordRouting ==
    kw_result.done =>
        /\ IF \E w \in Workers : Hit(w, kw_query)
           THEN \A w \in Workers : kw_result.agents_needed[w] <=> Hit(w, kw_query)
           ELSE \A w \in Workers : kw_result.agents_needed[w]
        /\ Range(kw_result.agents_consulted) =
              {w \in Workers : kw_result.agents_needed[w]}
        /\ kw_query = <<"R", "O", "I">> => kw_result.agents_consulted = <<"financial">>

\* the query "ROI" was routed to financial alone
C17_Witness ==
    /\ kw_result.done
    /\ kw_query = <<"R", "O", "I">>
    /\ kw_result.agents_consulted = <<"financial">>

\* b lists the items of a in some order
IsPermutation(a, b) ==
    /\ Len(a) = Len(b)
    /\ \A x \in Range(a) \cup Range(b) :
          Cardinality({i \in DOMAIN a : a[i] = x}) =
          Cardinality({i \in DOMAIN b : b[i] = x})

\* C18: a synthesis stored by set_synthesis for a query and a list of worker
\* ids is what get_synthesis returns, before the entry expires, for the same
\* query and any permutation of the list.
C18_SynthesisOrderFree ==
    last_get.done =>
        \A q \in CacheQueries, a \in SynthAgentLists, b \in SynthAgentLists :
            (IsPermutation(a, b)
               /\ last_get.key = synthesis_key(last_get.client, q, b)) =>
                \A w \in WritesOn(synthesis_key(last_get.client, q, a)) :
                    last_get.time < w.expires_at => last_get.value = w.value

\* a synthesis stored for market, financial was read back for financial, market
C18_Witness ==
    /\ last_get.done
    /\ last_get.value = "text"
    /\ last_get.key = synthesis_key(last_get.client, <<"q1">>, <<"financial", "market">>)
    /\ \E en \in store :
          /\ en.key = synthesis_key(en.writer, <<"q1">>, <<"market", "financial">>)
          /\ en.writer = last_get.client

\* C19: an unreachable Redis server never shows as a failure to a caller of
\* QueryCache: a cache built while the server is away uses the file backend,
\* and no get or set raises afterwards because the server is away.
C19_BackendFailureHidden == cache_raised = "none"

\* C20: with caching enabled, hits + misses is the number of gets and saves the
\* number of sets a QueryCache has made since its last clear(), and only
\* clear() lowers a counter.
C20_CountersCumulative ==
    /\ [](cache_backend # "none" =>
            \A c \in clients :
                /\ stats[c].hits + stats[c].misses = since_clear[c].gets
                /\ stats[c].saves = since_clear[c].sets)
    /\ [][\A c \in clients :
            (\/ stats'[c].hits < stats[c].hits
             \/ stats'[c].misses < stats[c].misses
             \/ stats'[c].saves < stats[c].saves) =>
                /\ since_clear'[c] = NoCalls
                /\ stats'[c] = ZeroStats]_vars

\* one instance has stored an entry, another has cleared the backend and then
\* looked the entry up: the first still counts one save, the second one miss
C20_Witness ==
    /\ cache_backend # "none"
    /\ store = {}
    /\ now = 0
    /\ \E c1 \in clients, c2 \in clients :
          /\ c1 # c2
          /\ stats[c2] = [hits |-> 0, misses |-> 0, saves |-> 1]
          /\ since_clear[c2] = [gets |-> 0, sets |-> 1]
          /\ stats[c1] = [hits |-> 0, misses |-> 1, saves |-> 0]
          /\ since_clear[c1] = [gets |-> 1, sets |-> 0]

\* the greatest and the least of a set of numbers
MaxOf(S) == CHOOSE x \in S : \A y \in S : y <= x
MinOf(S) == CHOOSE x \in S : \A y \in S : x <= y

\* the call was made with temperature=None
DefaultTemperatureUsed == tp_arg = NoTemperature /\ tp_temperature # <<>>

\* C21 as stated: the default temperature is the lowest configured setting for
\* financial and router, the highest configured setting for market and
\* leadgen, and the analytic setting for every other type.
C21_DefaultTemperatureStated ==
    DefaultTemperatureUsed =>
        /\ tp_agent_type \in {"financial", "router"} =>
              tp_temperature[1] = MinOf(ConfiguredTemperatures)
        /\ tp_agent_type \in {"market", "leadgen"} =>
              tp_temperature[1] = MaxOf(ConfiguredTemperatures)
        /\ tp_agent_type \notin {"financial", "router", "market", "leadgen"} =>
              tp_temperature[1] = TEMPERATURE_ANALYSIS

\* C21: the default temperature depends on the worker type alone: the lowest
\* configured setting for financial and router, the conversation setting for
\* market and leadgen (above the analytic one, below the creative one, which
\* no type gets), and the analytic setting for every other type.
C21_DefaultTemperature ==
    DefaultTemperatureUsed =>
        /\ tp_agent_type \in {"financial", "router"} =>
              tp_temperature[1] = MinOf(ConfiguredTemperatures)
        /\ tp_agent_type \in {"market", "leadgen"} =>
              /\ tp_temperature[1] = TEMPERATURE_CONVERSATION
              /\ TEMPERATURE_ANALYSIS < tp_temperature[1]
              /\ tp_temperature[1] < MaxOf(ConfiguredTemperatures)
        /\ tp_agent_type \notin {"financial", "router", "market", "leadgen"} =>
              tp_temperature[1] = TEMPERATURE_ANALYSIS
        /\ tp_temperature[1] # TEMPERATURE_CREATIVE

\* the market worker's call went on with the conversation setting
C21_Witness ==
    /\ DefaultTemperatureUsed
    /\ tp_agent_type = "market"
    /\ tp_temperature[1] = TEMPERATURE_CONVERSATION

OwnText(f, o) == IF o = "exc" THEN <<"Error: ", f>> ELSE <<"output of", f>>

C24_LookupOnceForMarket ==
    /\ wb_lookups <= 1
    /\ wb_lookups = 1 => "market" \in Range(wb_agents)
    /\ \A i \in DOMAIN wb_events, j \in DOMAIN wb_events :
          (wb_events[i] = <<"lookup">> /\ wb_events[j][1] = "launch") => i < j
    /\ \A w \in Workers \ {"market"} : wb_args[w] \in {NotLaunched, NoWeb}

\* the lookup ran, then market was launched with its result and another
\* worker without it
C24_Witness ==
    /\ wb_pc = "gather"
    /\ wb_lookups = 1
    /\ wb_args["market"] = WebResults
    /\ \E w \in Workers \ {"market"} : wb_args[w] = NoWeb

\* C25: the state of an orchestrate call is fresh: the graph is entered with
\* an empty routing decision, empty findings and an empty research context,
\* and in the returned result the findings of every worker not routed in this
\* call are empty and agents_consulted is this call's routing decision.
C25_StateFreshPerCall ==
    /\ pc = "router" => state = InitialState(state.query, state.use_memory)
    /\ pc \in {"router", "research_synthesis"} =>
          /\ state.research_context = ""
          /\ \A f \in Fields : state[f] = ""
    /\ result.returned =>
          /\ result.agents_consulted = state.agents_to_call
          /\ \A w \in Workers :
                w \notin Range(result.agents_consulted) =>
                    result.detailed_findings[FieldOf(w)] = ""
          /\ \A f \in Fields :
                result.detailed_findings[f] # "" => f \in TaskFields(state.agents_to_call)

\* a later call of an instance whose earlier call ran workers returned a
\* result with a routed worker's findings and an unrouted worker's empty field
C25_Witness ==
    /\ ncalls = 2
    /\ memory # <<>>
    /\ Len(memory) >= 3
    /\ result.returned
    /\ \E f \in Fields, g \in Fields :
          /\ result.detailed_findings[f] = ""
          /\ result.detailed_findings[g] # ""

\* a list holds no item twice
NoDuplicates(s) == \A i \in DOMAIN s, j \in DOMAIN s : s[i] = s[j] => i = j

\* C26: the worker list the router stores, and the agents_consulted of the
\* result, hold no worker id more than once.
C26_RoutingDeduplicated ==
    /\ NoDuplicates(state.agents_to_call)
    /\ result.returned => NoDuplicates(result.agents_consulted)

\* a step of the research stage with a raising agent, and a step out of the
\* router with the stage disabled, hand over to the dispatcher
ResearchStepContained ==
    /\ ResearchNode("raise") =>
          /\ state'.research_context = ""
          /\ state'.research_findings = "{}"
          /\ pc' = "agents_parallel"
          /\ state'.agents_to_call = state.agents_to_call
    /\ (pc = "router" /\ pc' # "router" /\ ~enable_rag) =>
          /\ pc' = "agents_parallel"
          /\ stages' = <<"router">>

\* C27: a failing or disabled research stage never aborts the pipeline.  When
\* the research agent raises, the stage leaves research_context as the empty
\* string and research_findings empty and hands over to the dispatcher with
\* the routing decision as the router left it; when the stage is disabled it
\* is not run, both fields stay empty and the router hands over to the
\* dispatcher; no exception of the research stage leaves orchestrate.
C27_ResearchFailureContained ==
    /\ [](raised_in # "research_synthesis")
    /\ [](~enable_rag =>
            /\ ~(\E i \in DOMAIN stages : stages[i] = "research_synthesis")
            /\ state.research_context = ""
            /\ state.research_findings = "{}")
    /\ [][ResearchStepContained]_vars

\* the research agent raised and the call went on to return a result
C27_Witness ==
    /\ enable_rag
    /\ \E i \in DOMAIN stages : stages[i] = "research_synthesis"
    /\ state.research_findings = "{}"
    /\ state.research_context = ""
    /\ state.agents_to_call # <<>>
    /\ result.returned

\* C28: when an orchestrate call has raised, memory holds the turns it held
\* before the call: no user turn is left without its assistant turn.
C28_FailedCallLeavesMemory ==
    pc = "raised" =>
        \A i \in DOMAIN memory :
            memory[i][1] = "user" =>
                /\ i < Len(memory)
                /\ memory[i + 1][1] = "assistant"

\* C29: clear() called through the QueryCache of one client removes only that
\* client's entries: an entry written under another client identity is still
\* in the backend afterwards.
C29_ClearScopedToClient ==
    [][\A c \in clients :
          (cache_backend # "none" /\ Clear(c)) =>
              \A en \in store :
                  (en.writer # c /\ Truthy(en.writer)) => en \in store']_vars

\* the get a step made, if the step is a get of client c
GetStepOf(c) == since_clear'[c].gets = since_clear[c].gets + 1

\* the unexpired entries the key of the step's get holds
FoundBy(key) == {en \in Lookup(store, key) : now < en.expires_at}

\* C30: with caching enabled, a get on a key holding an unexpired entry
\* returns the stored value and adds one to hits and nothing to misses,
\* whatever the stored value is; a get that finds no unexpired entry adds one
\* to misses.
C30_HitsCountFoundEntries ==
    [][\A c \in clients :
          (cache_backend # "none" /\ GetStepOf(c)) =>
              IF FoundBy(last_get'.key) # {}
              THEN /\ stats'[c].hits = stats[c].hits + 1
                   /\ stats'[c].misses = stats[c].misses
                   /\ \A en \in FoundBy(last_get'.key) :
                         last_get'.value = JsonDecode(en.data)
              ELSE /\ stats'[c].misses = stats[c].misses + 1
                   /\ stats'[c].hits = stats[c].hits]_vars

====
